---- MODULE Spec2Model ----
(***************************************************************************)
(* Model of plot_perm_tot.py: one run of main() over one input file.       *)
(*                                                                         *)
(* Times are integers in thousandths of a nanosecond, so that the          *)
(* two-decimal formatting of the .xvg export is a real rounding.  A row    *)
(* of a DataFrame is a record that carries its index label (idx, the       *)
(* 0-based position in the input file), as pandas does.                    *)
(***************************************************************************)
EXTENDS Integers, Sequences, FiniteSets, Bags, TLC

\* ---------------------------------------------------------------- bounds
MaxRows == 3

\* ------------------------------------------------------- input alphabets
\* 2000 and 2004 differ as times but print as the same "%6.2f" field.
Times == {1000, 2000, 2004}
Resids == {7, 10}
TimeOffsets == {0, 1000, 2000}
Flags == {"", "wt"}
CsvKinds == {"missing", "directory", "zero_bytes", "no_time_col",
             "no_resid_col", "table"}
Outs == <<"png", "pdf", "xvg", "sel">>
OutSet == {Outs[i] : i \in 1..Len(Outs)}

VARIABLES csvKind, csv, flag, time_offset, preexisting,
          pc, data, processed, fstat, xvg, sel, stdout, uncaught, exitCode

vars == <<csvKind, csv, flag, time_offset, preexisting,
          pc, data, processed, fstat, xvg, sel, stdout, uncaught, exitCode>>

\* ------------------------------------------------------ pure functions
DigitChars == <<"0", "1", "2", "3", "4", "5", "6", "7", "8", "9">>
Digit(d) == DigitChars[d + 1]

\* str() of a non-negative integer, as a sequence of characters
RECURSIVE str(_)
str(n) == IF n < 10 THEN <<Digit(n)>> ELSE str(n \div 10) \o <<Digit(n % 10)>>

\* a join that forgets the separator
RECURSIVE list2str_nosep(_)
list2str_nosep(l) ==
    IF l = <<>> THEN <<>> ELSE str(l[1]) \o list2str_nosep(Tail(l))

\* ' '.join(map(str, l))
RECURSIVE list2str(_)
list2str(l) ==
    IF l = <<>> THEN <<>>
    ELSE IF Len(l) = 1 THEN str(l[1])
    ELSE str(l[1]) \o <<" ">> \o list2str(Tail(l))

\* width of the "{:6.2f}" fields of the .xvg export
FieldWidth == 6

\* right-justify s in a field of w characters (never truncates)
Pad(s, w) ==
    IF Len(s) >= w THEN s
    ELSE [i \in 1..w |-> IF i <= w - Len(s) THEN " " ELSE s[i - (w - Len(s))]]

\* f"{x:6.2f}" of a non-negative value given in thousandths: round to
\* hundredths, print the integer part, a point and two digits, pad to 6.
\* (The inputs of the model avoid exact halves of a hundredth.)
Format62f(x) ==
    LET h == (x + 5) \div 10
    IN  Pad(str(h \div 100) \o <<".">> \o <<Digit((h \div 10) % 10), Digit(h % 10)>>,
            FieldWidth)

\* one line of the .xvg file; permeations_tot is an integer count
XvgLine(r) ==
    Format62f(r.time) \o <<" ">> \o Format62f(r.permeations_tot * 1000) \o <<"\n">>

XvgLines(tbl) == [i \in 1..Len(tbl) |-> XvgLine(tbl[i])]

\* a writer that leaves the file empty when there is no row
SelText_skip_empty(tbl) ==
    IF tbl = <<>> THEN <<>>
    ELSE <<"resname SOL TIP3 and resid", " ">>
         \o list2str([i \in 1..Len(tbl) |-> tbl[i].resid])

\* the text written to the .sel file
SelPrefix == <<"resname SOL TIP3 and resid">>
SelText(tbl) == SelPrefix \o <<" ">> \o list2str([i \in 1..Len(tbl) |-> tbl[i].resid])

\* os.path.exists(path) in place of isfile: a directory passes
isfile_exists(kind) == kind # "missing"

\* os.path.isfile(path)
isfile(kind) == kind \notin {"missing", "directory"}

\* pd.read_csv: the rows of the file, labelled with a 0-based RangeIndex
read_csv(rows) ==
    [i \in 1..Len(rows) |-> [idx |-> i - 1, time |-> rows[i].time, resid |-> rows[i].resid]]

\* a filter that keeps the boundary row (>= in place of >)
filtered_data_ge(tbl, T) == SelectSeq(tbl, LAMBDA r : r.time >= T)

\* data[data["time(ns)"] > time_offset]
filtered_data(tbl, T) == SelectSeq(tbl, LAMBDA r : r.time > T)

Arrangements(n) == {p \in [1..n -> 1..n] : \A i, j \in 1..n : i # j => p[i] # p[j]}

\* a processor that forgets to sort
sort_values_unsorted(tbl) == {tbl}

\* data.sort_values(by='time(ns)'): the default kind is 'quicksort', which
\* pandas documents as not stable, so every ascending arrangement of the rows
\* is a possible result; rows of equal time may come out in either order.
sort_values(tbl) ==
    LET n == Len(tbl)
    IN  {[i \in 1..n |-> tbl[p[i]]] :
            p \in {q \in Arrangements(n) :
                     \A i \in 1..(n - 1) : tbl[q[i]].time <= tbl[q[i + 1]].time}}

\* a 0-based count: [i for i in range(n)]
permeations_tot_zero_based(n) == [k \in 1..n |-> k - 1]

\* [i + 1 for i in range(n)]
permeations_tot(n) == [k \in 1..n |-> (k - 1) + 1]

\* sorted_data['permeations_tot'] = [...]
with_permeations_tot(tbl) ==
    [k \in 1..Len(tbl) |->
        [idx |-> tbl[k].idx, time |-> tbl[k].time, resid |-> tbl[k].resid,
         permeations_tot |-> permeations_tot(Len(tbl))[k]]]

\* save_xvg called before the PDF is saved
StageAfter_xvg_first(stage) ==
    CASE stage = "savefig_png" -> "save_xvg"
      [] stage = "save_xvg"    -> "savefig_pdf"
      [] stage = "savefig_pdf" -> "save_sel"
      [] stage = "save_sel"    -> "exited"

\* main(): the order in which the four outputs are written
StageAfter(stage) ==
    CASE stage = "savefig_png" -> "savefig_pdf"
      [] stage = "savefig_pdf" -> "save_xvg"
      [] stage = "save_xvg"    -> "save_sel"
      [] stage = "save_sel"    -> "exited"

\* ------------------------------------------------------------- inputs
RowsOver(resids) ==
    UNION {[1..n -> [time : Times, resid : resids]] : n \in 0..MaxRows}

\* the data rows of the input file, by kind of file; a file without a
\* resid column has rows whose resid is absent (0 stands for "no value")
InputTables(kind) ==
    CASE kind = "table"        -> RowsOver(Resids)
      [] kind = "no_resid_col" -> RowsOver({0})
      [] OTHER                 -> {<<>>}

OldXvg == <<<<"old">>>>
OldSel == <<"old">>
Untouched == IF preexisting THEN "old" ELSE "absent"

TypeOK ==
    /\ csvKind \in CsvKinds
    /\ flag \in Flags
    /\ time_offset \in TimeOffsets
    /\ preexisting \in BOOLEAN
    /\ pc \in {"handle_args", "load_data", "process_data", "savefig_png",
               "savefig_pdf", "save_xvg", "save_sel", "exited"}
    /\ fstat \in [OutSet -> {"absent", "old", "partial", "written"}]
    /\ exitCode \in {-1, 0, 1}

Init ==
    /\ csvKind \in CsvKinds
    /\ csv \in InputTables(csvKind)
    /\ flag \in Flags
    /\ time_offset \in TimeOffsets
    /\ preexisting \in BOOLEAN
    /\ pc = "handle_args"
    /\ data = <<>>
    /\ processed = <<>>
    /\ fstat = [f \in OutSet |-> Untouched]
    /\ xvg = IF preexisting THEN OldXvg ELSE <<>>
    /\ sel = IF preexisting THEN OldSel ELSE <<>>
    /\ stdout = <<>>
    /\ uncaught = "none"
    /\ exitCode = -1

\* ------------------------------------------------------------ actions
\* sys.exit(1) after a printed diagnostic
SysExit1(lines) ==
    /\ stdout' = stdout \o lines
    /\ exitCode' = 1
    /\ pc' = "exited"
    /\ UNCHANGED uncaught

\* an exception nobody catches: traceback, interpreter exit status 1
Raise(exc) ==
    /\ uncaught' = exc
    /\ exitCode' = 1
    /\ pc' = "exited"

HandleArgs ==
    /\ pc = "handle_args"
    /\ IF ~isfile(csvKind)
         THEN SysExit1(<<"error_does_not_exist", "help">>)
         ELSE IF flag = ""
           THEN SysExit1(<<"error_flag_required", "help">>)
           ELSE /\ pc' = "load_data"
                /\ UNCHANGED <<stdout, uncaught, exitCode>>
    /\ UNCHANGED <<csvKind, csv, flag, time_offset, preexisting,
                   data, processed, fstat, xvg, sel>>

\* the environment: the input file is deleted between the isfile() check
\* and the read
CsvRemoved ==
    /\ pc = "load_data"
    /\ isfile(csvKind)
    /\ csvKind' = "missing"
    /\ UNCHANGED <<csv, flag, time_offset, preexisting,
                   pc, data, processed, fstat, xvg, sel, stdout, uncaught, exitCode>>

LoadData ==
    /\ pc = "load_data"
    /\ CASE csvKind = "missing" ->
              SysExit1(<<"error_does_not_exist">>) /\ UNCHANGED data
         [] csvKind = "directory" ->
              Raise("IsADirectoryError") /\ UNCHANGED <<data, stdout>>
         [] csvKind = "zero_bytes" ->
              SysExit1(<<"error_empty_or_not_valid">>) /\ UNCHANGED data
         [] csvKind = "no_time_col" ->
              Raise("KeyError") /\ UNCHANGED <<data, stdout>>
         [] OTHER ->
              /\ data' = filtered_data(read_csv(csv), time_offset)
              /\ pc' = "process_data"
              /\ UNCHANGED <<stdout, uncaught, exitCode>>
    /\ UNCHANGED <<csvKind, csv, flag, time_offset, preexisting,
                   processed, fstat, xvg, sel>>

ProcessData ==
    /\ pc = "process_data"
    /\ \E sorted_data \in sort_values(data) :
          processed' = with_permeations_tot(sorted_data)
    /\ pc' = "savefig_png"
    /\ UNCHANGED <<csvKind, csv, flag, time_offset, preexisting,
                   data, fstat, xvg, sel, stdout, uncaught, exitCode>>

\* how a write can end: done, refused at open, or broken off after the
\* file was created or truncated
WriteResults == {"ok", "open_failed", "write_failed"}

AfterWrite(old, res) ==
    CASE res = "ok"           -> "written"
      [] res = "open_failed"  -> old
      [] res = "write_failed" -> "partial"

Savefig(stage, out, line) ==
    /\ pc = stage
    /\ \E res \in WriteResults :
          /\ fstat' = [fstat EXCEPT ![out] = AfterWrite(@, res)]
          /\ IF res = "ok"
               THEN pc' = StageAfter(stage) /\ UNCHANGED <<uncaught, exitCode>>
               ELSE Raise("OSError")
    /\ stdout' = Append(stdout, line)
    /\ UNCHANGED <<csvKind, csv, flag, time_offset, preexisting,
                   data, processed, xvg, sel>>

SavefigPng == Savefig("savefig_png", "png", "saving_png")
SavefigPdf == Savefig("savefig_pdf", "pdf", "saving_pdf")

SaveXvg ==
    /\ pc = "save_xvg"
    /\ \E res \in WriteResults, k \in 0..Len(processed) :
          /\ res = "ok" => k = Len(processed)
          /\ res = "open_failed" => k = 0
          /\ res = "write_failed" => k < Len(processed)
          /\ fstat' = [fstat EXCEPT !["xvg"] = AfterWrite(@, res)]
          /\ xvg' = IF res = "open_failed" THEN xvg
                    ELSE SubSeq(XvgLines(processed), 1, k)
          /\ IF res = "ok"
               THEN /\ stdout' = Append(stdout, "saving_xvg")
                    /\ pc' = StageAfter("save_xvg")
                    /\ UNCHANGED <<uncaught, exitCode>>
               ELSE Raise("OSError") /\ UNCHANGED stdout
    /\ UNCHANGED <<csvKind, csv, flag, time_offset, preexisting,
                   data, processed, sel>>

\* open() comes first, then data['resid'] is read, then the one write
SaveSel ==
    /\ pc = "save_sel"
    /\ \E res \in WriteResults :
          /\ fstat' = [fstat EXCEPT !["sel"] =
                          IF res = "ok" /\ csvKind = "no_resid_col"
                            THEN "partial" ELSE AfterWrite(@, res)]
          /\ sel' = CASE res = "open_failed" -> sel
                      [] res = "write_failed" -> <<>>
                      [] res = "ok" ->
                           IF csvKind = "no_resid_col" THEN <<>> ELSE SelText(processed)
          /\ IF res = "ok"
               THEN IF csvKind = "no_resid_col"
                      THEN Raise("KeyError") /\ UNCHANGED stdout
                      ELSE /\ stdout' = Append(stdout, "saving_sel")
                           /\ pc' = StageAfter("save_sel")
                           /\ exitCode' = 0
                           /\ UNCHANGED uncaught
               ELSE Raise("OSError") /\ UNCHANGED stdout
    /\ UNCHANGED <<csvKind, csv, flag, time_offset, preexisting,
                   data, processed, xvg>>

Next ==
    \/ HandleArgs
    \/ CsvRemoved
    \/ LoadData
    \/ ProcessData
    \/ SavefigPng
    \/ SavefigPdf
    \/ SaveXvg
    \/ SaveSel

Spec == Init /\ [][Next]_vars

\* ------------------------------------------------- terms of the claims
\* positions (1-based) of the input rows that pass time > time_offset
Retained == {i \in 1..Len(csv) : csv[i].time > time_offset}

\* process_data is behind (or the run ended before it, with no table)
Processed == pc \notin {"handle_args", "load_data", "process_data"}

NoOutputTouched ==
    /\ fstat = [f \in OutSet |-> Untouched]
    /\ xvg = IF preexisting THEN OldXvg ELSE <<>>
    /\ sel = IF preexisting THEN OldSel ELSE <<>>

\* the fields as they must appear in the file, written out by hand
ExpectedTimeField(t) ==
    CASE t = 1000 -> <<" ", " ", "1", ".", "0", "0">>
      [] t = 2000 -> <<" ", " ", "2", ".", "0", "0">>
      [] t = 2004 -> <<" ", " ", "2", ".", "0", "0">>

ExpectedCountField(k) == <<" ", " ", DigitChars[k + 1], ".", "0", "0">>

ExpectedResidToken(r) == IF r = 7 THEN <<"7">> ELSE <<"1", "0">>

TimeField(line) == SubSeq(line, 1, FieldWidth)
CountField(line) == SubSeq(line, FieldWidth + 2, 2 * FieldWidth + 1)

\* whitespace-separated tokens of a sequence of characters
RECURSIVE Split(_, _, _)
Split(s, cur, acc) ==
    IF s = <<>> THEN (IF cur = <<>> THEN acc ELSE Append(acc, cur))
    ELSE IF Head(s) = " "
           THEN Split(Tail(s), <<>>, IF cur = <<>> THEN acc ELSE Append(acc, cur))
           ELSE Split(Tail(s), Append(cur, Head(s)), acc)
Tokens(s) == Split(s, <<>>, <<>>)

\* ---------------------------------------------------------------- C1
\* C1: the lines of a completely written .xvg file are, as a multiset, the
\* input rows with time > time_offset: as many lines as such rows, for each
\* printed time as many lines as such rows printing to it, every processed
\* row is one such input row taken once, and no row with time = time_offset
\* is among them.
C1_XvgRowsAreRowsAfterOffset ==
    fstat["xvg"] = "written" =>
        /\ Len(xvg) = Cardinality(Retained)
        /\ Len(processed) = Len(xvg)
        /\ {processed[k].idx + 1 : k \in 1..Len(processed)} = Retained
        /\ \A k \in 1..Len(xvg) :
              /\ processed[k].time = csv[processed[k].idx + 1].time
              /\ TimeField(xvg[k]) = ExpectedTimeField(processed[k].time)
        /\ \A t \in Times :
              Cardinality({k \in 1..Len(xvg) : TimeField(xvg[k]) = ExpectedTimeField(t)})
                = Cardinality({i \in Retained :
                                 ExpectedTimeField(csv[i].time) = ExpectedTimeField(t)})
        /\ \A i \in 1..Len(csv) :
              csv[i].time = time_offset =>
                 \A k \in 1..Len(processed) : processed[k].idx # i - 1

C1_Witness ==
    /\ fstat["xvg"] = "written"
    /\ \E i \in 1..Len(csv) : csv[i].time = time_offset
    /\ \E i \in 1..Len(csv) : csv[i].time < time_offset
    /\ Len(xvg) = 1

\* ---------------------------------------------------------------- C2
\* C2: the permeations_tot column of the processed table is 1, 2, ..., N in
\* row order, N being the number of filtered rows, and a completely written
\* .xvg file shows k.00 as the count of its k-th line.
C2_CountsAreOneToN ==
    Processed =>
        /\ Len(processed) = Len(data)
        /\ \A k \in 1..Len(processed) : processed[k].permeations_tot = k
        /\ fstat["xvg"] = "written" =>
              \A k \in 1..Len(xvg) : CountField(xvg[k]) = ExpectedCountField(k)

C2_Witness ==
    /\ fstat["xvg"] = "written"
    /\ Len(xvg) = MaxRows
    /\ processed[MaxRows].permeations_tot = MaxRows

\* ---------------------------------------------------------------- C3
\* C3: consecutive rows of the processed table are non-decreasing in time,
\* and the k-th line of a completely written .xvg file prints the time of
\* the k-th processed row.
C3_NonDecreasingTime ==
    Processed =>
        /\ \A k \in 1..(Len(processed) - 1) : processed[k].time <= processed[k + 1].time
        /\ fstat["xvg"] = "written" =>
              /\ Len(xvg) = Len(processed)
              /\ \A k \in 1..Len(xvg) :
                    TimeField(xvg[k]) = ExpectedTimeField(processed[k].time)

C3_Witness ==
    /\ fstat["xvg"] = "written"
    /\ Len(data) >= 2
    /\ data[1].time > data[2].time
    /\ processed[1].time < processed[2].time

\* ---------------------------------------------------------------- C4
\* C4: the sort is stable: of two processed rows with equal time, the one
\* that comes earlier in the input file comes earlier in the processed table.
C4_StableSort ==
    Processed =>
        \A j, k \in 1..Len(processed) :
            (j < k /\ processed[j].time = processed[k].time)
               => processed[j].idx < processed[k].idx

\* ---------------------------------------------------------------- C5
\* C5: a completely written .sel file is the prefix, then N tokens separated
\* by single spaces, the i-th token being the resid of the i-th processed
\* row; repeated resids are repeated and the order is the table's.
C5_SelListsEveryResidInOrder ==
    fstat["sel"] = "written" =>
        /\ Head(sel) = "resname SOL TIP3 and resid"
        /\ sel[2] = " "
        /\ Tokens(Tail(sel)) =
              [k \in 1..Len(processed) |-> ExpectedResidToken(processed[k].resid)]
        /\ \A i \in 2..(Len(sel) - 1) : ~(sel[i] = " " /\ sel[i + 1] = " ")
        /\ Len(processed) > 0 => sel[Len(sel)] # " "

C5_Witness ==
    /\ fstat["sel"] = "written"
    /\ Len(processed) = MaxRows
    /\ processed[1].resid = 10
    /\ processed[2].resid = 7
    /\ processed[MaxRows].resid = 10

\* ---------------------------------------------------------------- C6
\* C6: a run whose csv_file is not an existing file ends with the "does not
\* exist" diagnostic, exit code 1 and no output file created or overwritten,
\* for every flag, time offset and state of the output directory.
C6_MissingFileExits1 ==
    (pc = "exited" /\ csvKind \in {"missing", "directory"}) =>
        /\ \E i \in 1..Len(stdout) : stdout[i] = "error_does_not_exist"
        /\ exitCode = 1
        /\ uncaught = "none"
        /\ NoOutputTouched

C6_Witness ==
    /\ pc = "exited"
    /\ csvKind = "directory"
    /\ flag = ""
    /\ preexisting
    /\ exitCode = 1

\* ---------------------------------------------------------------- C7
\* C7: a run over an existing file that is empty or lacks a required column
\* ends with the "is empty or not a valid CSV file" diagnostic, exit code 1
\* and no output file written.
C7_InvalidFileExits1 ==
    (pc = "exited" /\ flag # ""
       /\ csvKind \in {"zero_bytes", "no_time_col", "no_resid_col"}) =>
        /\ \E i \in 1..Len(stdout) : stdout[i] = "error_empty_or_not_valid"
        /\ exitCode = 1
        /\ uncaught = "none"
        /\ NoOutputTouched

\* ---------------------------------------------------------------- C8
\* C8 (as stated): a run over a table none of whose rows passes the filter,
\* and in which no write fails, ends with exit code 0, the four files
\* written, an empty .xvg file and an empty .sel file.
C8_EmptyTableEmptyFiles ==
    (pc = "exited" /\ flag # "" /\ csvKind = "table" /\ Retained = {}) =>
        /\ uncaught \in {"none", "OSError"}
        /\ uncaught = "none" =>
              /\ exitCode = 0
              /\ \A f \in OutSet : fstat[f] = "written"
              /\ processed = <<>>
              /\ xvg = <<>>
              /\ sel = <<>>

\* C8 (amended): as above, but the .sel file is not empty: it holds the
\* prefix and one space, followed by no id.
C8_EmptyTablePrefixOnlySel ==
    (pc = "exited" /\ flag # "" /\ csvKind = "table" /\ Retained = {}) =>
        /\ uncaught \in {"none", "OSError"}
        /\ uncaught = "none" =>
              /\ exitCode = 0
              /\ \A f \in OutSet : fstat[f] = "written"
              /\ processed = <<>>
              /\ xvg = <<>>
              /\ sel = <<"resname SOL TIP3 and resid", " ">>
              /\ Tokens(Tail(sel)) = <<>>

C8_Witness ==
    /\ pc = "exited"
    /\ csvKind = "table"
    /\ Len(csv) > 0
    /\ Retained = {}
    /\ exitCode = 0
    /\ fstat["sel"] = "written"

\* ---------------------------------------------------------------- C9
\* the number of retained input rows whose time is below t, or at most t
EventsBefore(t) == Cardinality({i \in Retained : csv[i].time < t})
EventsUpTo(t) == Cardinality({i \in Retained : csv[i].time <= t})

\* C9 (as stated): the count of every processed row is the number of
\* retained events whose time is at most the row's time.
C9_CountIsRunningTotal ==
    Processed =>
        \A k \in 1..Len(processed) :
            processed[k].permeations_tot = EventsUpTo(processed[k].time)

\* C9 (amended): the count of a processed row is above the number of
\* retained events of smaller time and at most the number of retained events
\* of smaller or equal time; it is that number exactly when no later row of
\* the processed table has the same time.
C9_CountWithinTieGroup ==
    Processed =>
        \A k \in 1..Len(processed) :
            /\ processed[k].permeations_tot > EventsBefore(processed[k].time)
            /\ processed[k].permeations_tot <= EventsUpTo(processed[k].time)
            /\ (processed[k].permeations_tot = EventsUpTo(processed[k].time))
                 <=> (k = Len(processed) \/ processed[k + 1].time > processed[k].time)

C9_Witness ==
    /\ Processed
    /\ Len(processed) = MaxRows
    /\ processed[1].time = processed[2].time
    /\ processed[1].permeations_tot < EventsUpTo(processed[1].time)
    /\ processed[MaxRows].time > processed[2].time

\* --------------------------------------------------------------- C10
Touched(f) == fstat[f] \in {"partial", "written"}

\* C10: the outputs are written in the order .png, .pdf, .xvg, .sel: a file
\* is created or overwritten only when every file before it is completely
\* written, and once a write has failed the run is over, the files after
\* the failed one are as they were before the run and those before it stay
\* written.
C10_WritesInOrderNoRollback ==
    /\ \A k \in 1..Len(Outs) :
          Touched(Outs[k]) => \A j \in 1..(k - 1) : fstat[Outs[j]] = "written"
    /\ \A k \in 1..Len(Outs) :
          fstat[Outs[k]] # "written" =>
             \A j \in (k + 1)..Len(Outs) : fstat[Outs[j]] = Untouched
    /\ uncaught # "none" => pc = "exited" /\ exitCode = 1
    /\ (pc = "exited" /\ exitCode = 0) => \A f \in OutSet : fstat[f] = "written"

C10_Witness ==
    /\ pc = "exited"
    /\ uncaught = "OSError"
    /\ preexisting
    /\ fstat = [f \in OutSet |->
                  CASE f = "png" -> "written" [] f = "pdf" -> "written"
                    [] f = "xvg" -> "partial" [] f = "sel" -> "old"]
    /\ Len(xvg) = 1

====
